---------------------------- MODULE Spec2Model ----------------------------
(***************************************************************************)
(* Model of the tensor indexing accessor of Open3D's Python binding        *)
(* (cpp/pybind/core/tensor_accessor.cpp): the ToTensorKey overloads, the   *)
(* PyHandleToTensorKey classification ladder, and the operators that       *)
(* pybind_core_tensor_accessor registers on the Tensor class.              *)
(*                                                                         *)
(* One Python-level operation on the tensor (t[k], t[k] = v, t._getitem    *)
(* ...) is one action, except the tuple overload of __getitem__, whose     *)
(* loop over the tuple is modelled one iteration per step so that the      *)
(* partially built key vector is a state.                                  *)
(***************************************************************************)
EXTENDS Integers, Sequences, FiniteSets

VARIABLES
    pc,       \* "idle", "tuple_loop" (inside the tuple overload), or "done"
    req,      \* the operation in progress or last finished: [op, key, value]
    i,        \* the tuple overload's position in the tuple (1-based)
    tks,      \* the tuple overload's std::vector<TensorKey>
    calls,    \* the storage engine calls made by the operation, in order
    outcome   \* how the operation ended: [status, err, cls, at]

vars == <<pc, req, i, tks, calls, outcome>>

(***************************************************************************)
(* Bounds.                                                                 *)
(***************************************************************************)
MaxTupleLen == 2

(***************************************************************************)
(* 64-bit integers.  TLC's integers are 32 bits wide, so an int64_t is the *)
(* pair of its two's complement halves: hi the upper 32 bits and lo the    *)
(* lower 32 bits, each read as a signed 32-bit number.                     *)
(***************************************************************************)
I64(h, l) == [hi |-> h, lo |-> l]

\* The int64_t that a C int sign-extends to.
SignExtend(l) == I64(IF l < 0 THEN -1 ELSE 0, l)

\* static_cast<int>(int64_t): the low 32 bits (modular conversion).
NarrowToInt(v) == v.lo

FitsInt(v) == v = SignExtend(v.lo)

IsNegative(v) == v.hi < 0

PY_SSIZE_T_MAX == I64(2147483647, -1)

PY_SSIZE_T_MIN == I64(-2147483647 - 1, 0)

(***************************************************************************)
(* Tensor elements.  A number is an int64 plus an optional half, which is  *)
(* enough to tell 2.5 from 2; Boolean elements are 0 and 1.                *)
(***************************************************************************)
Num(h, l, f) == [hi |-> h, lo |-> l, half |-> f]

NumOfI64(v) == Num(v.hi, v.lo, 0)

Tensor(d, vs) == [dtype |-> d, vals |-> vs]

NoTensor == Tensor("Undefined", <<>>)

GetDtype(t) == t.dtype

\* Truncation toward zero of a number to an integer.
Trunc(x) ==
    IF x.half = 1 /\ x.hi < 0
    THEN IF x.lo = -1 THEN Num(x.hi + 1, 0, 0) ELSE Num(x.hi, x.lo + 1, 0)
    ELSE Num(x.hi, x.lo, 0)

\* Tensor::To(dtype): a tensor of the given dtype with the elements cast.
To(t, d) ==
    IF d = "Int64"
    THEN Tensor(d, [k \in 1..Len(t.vals) |-> Trunc(t.vals[k])])
    ELSE Tensor(d, t.vals)

(***************************************************************************)
(* TensorKey and its three factories.                                      *)
(***************************************************************************)
NoKey == [mode |-> "None"]

TensorKey_Index(index) == [mode |-> "Index", index |-> index]

TensorKey_Slice(start, stop, step, start_is_none, stop_is_none, step_is_none) ==
    [mode |-> "Slice", start |-> start, stop |-> stop, step |-> step,
     start_is_none |-> start_is_none, stop_is_none |-> stop_is_none,
     step_is_none |-> step_is_none]

TensorKey_IndexTensor(index_tensor) ==
    [mode |-> "IndexTensor", index_tensor |-> index_tensor]

(***************************************************************************)
(* Results of a conversion: it returns a key or throws.  A conversion is a *)
(* set of results, a singleton unless the code reads an indeterminate      *)
(* value.                                                                  *)
(***************************************************************************)
Ret(k) == [ok |-> TRUE, key |-> k, err |-> "", cls |-> <<>>]

Throw(e, c) == [ok |-> FALSE, key |-> NoKey, err |-> e, cls |-> c]

\* utility::LogError: formats the message and throws std::runtime_error.
LogError(msg, class_name) == Throw(msg, class_name)


(***************************************************************************)
(* Python values that reach the accessor.  Every value carries the name of *)
(* its runtime class, str(type(x)), cut into pieces so that the pieces     *)
(* "open3d" and "Tensor" stand alone wherever the name contains them.      *)
(***************************************************************************)
None_ == [none |-> TRUE, v |-> I64(0, 0)]

Some(v) == [none |-> FALSE, v |-> v]

PyInt(v) == [cls |-> <<"<class '", "int", "'>">>, val |-> v]

PyBool(b) == [cls |-> <<"<class '", "bool", "'>">>, val |-> b]

PyFloat(x) == [cls |-> <<"<class '", "float", "'>">>, val |-> x]

PyStr == [cls |-> <<"<class '", "str", "'>">>]

PyNone == [cls |-> <<"<class '", "NoneType", "'>">>]

PySlice(a, b, c) ==
    [cls |-> <<"<class '", "slice", "'>">>, start |-> a, stop |-> b, step |-> c]

PyList(es) == [cls |-> <<"<class '", "list", "'>">>, elems |-> es]

PyTuple(es) == [cls |-> <<"<class '", "tuple", "'>">>, elems |-> es]

NpArray(d, vs) ==
    [cls |-> <<"<class '", "numpy.", "ndarray", "'>">>, dtype |-> d, vals |-> vs]

\* An object of another class: of the bound Tensor class (castable) or not.
PyObject(name, castable, t) ==
    [cls |-> <<"<class '">> \o name \o <<"'>">>, castable |-> castable,
     tensor |-> t]

NoItem == [cls |-> <<>>]

ClassIs(item, name) == item.cls = <<"<class '", name, "'>">>

IsInt(item) == ClassIs(item, "int")
IsSlice(item) == ClassIs(item, "slice")
IsList(item) == ClassIs(item, "list")
IsTuple(item) == ClassIs(item, "tuple")
IsArray(item) == item.cls = <<"<class '", "numpy.", "ndarray", "'>">>
IsObject(item) == "castable" \in DOMAIN item
IsTensor(item) == IsObject(item) /\ item.castable

\* std::string::find(piece) != npos, on a name cut into pieces.
Find(class_name, piece) == \E k \in 1..Len(class_name) : class_name[k] = piece

(***************************************************************************)
(* Collaborators of the accessor.                                          *)
(***************************************************************************)
Converted(t) == [ok |-> TRUE, tensor |-> t]

NotConverted == [ok |-> FALSE, tensor |-> NoTensor]

\* The element a Python scalar becomes in a tensor.
ElementOf(x) ==
    IF ClassIs(x, "bool") THEN Num(0, IF x.val THEN 1 ELSE 0, 0)
    ELSE IF ClassIs(x, "int") THEN NumOfI64(x.val)
    ELSE x.val

\* PyTupleToTensor: a flat Python sequence as a tensor, the dtype inferred
\* from the elements; a sequence with a non-numeric element is refused.
PyTupleToTensor(key) ==
    LET es == key.elems
        n == Len(es)
        all(name) == \A k \in 1..n : ClassIs(es[k], name)
        some(name) == \E k \in 1..n : ClassIs(es[k], name)
        numeric == \A k \in 1..n : ClassIs(es[k], "bool") \/ ClassIs(es[k], "int")
                                    \/ ClassIs(es[k], "float")
        elements == [k \in 1..n |-> ElementOf(es[k])]
    IN  IF ~numeric THEN NotConverted
        ELSE IF n = 0 \/ some("float") THEN Converted(Tensor("Float64", elements))
        ELSE IF all("bool") THEN Converted(Tensor("Bool", elements))
        ELSE Converted(Tensor("Int64", elements))

\* PyArrayToTensor: a numpy array as a tensor of the matching dtype; an
\* array of a dtype the library has no counterpart for is refused.
PyArrayToTensor(key) ==
    IF key.dtype = "bool" THEN Converted(Tensor("Bool", key.vals))
    ELSE IF key.dtype = "int64" THEN Converted(Tensor("Int64", key.vals))
    ELSE IF key.dtype = "int32" THEN Converted(Tensor("Int32", key.vals))
    ELSE IF key.dtype = "float64" THEN Converted(Tensor("Float64", key.vals))
    ELSE NotConverted

\* Values an uninitialized Py_ssize_t may hold.
Indeterminate == {I64(0, 0), I64(21845, 1431655765)}

\* PySlice_Unpack (CPython): the slice's fields as Py_ssize_t, None replaced
\* by the default for the step's sign.  With a step of 0 it sets ValueError
\* and returns -1 before start and stop are written.
PySlice_Unpack(key) ==
    LET step == IF key.step.none THEN I64(0, 1)
                ELSE IF key.step.v = PY_SSIZE_T_MIN THEN I64(-2147483647 - 1, 1)
                ELSE key.step.v
        start == IF key.start.none
                 THEN (IF IsNegative(step) THEN PY_SSIZE_T_MAX ELSE I64(0, 0))
                 ELSE key.start.v
        stop == IF key.stop.none
                THEN (IF IsNegative(step) THEN PY_SSIZE_T_MIN ELSE PY_SSIZE_T_MAX)
                ELSE key.stop.v
    IN  IF step = I64(0, 0)
        THEN {[rc |-> -1, start |-> a, stop |-> b, step |-> step] :
                  a \in Indeterminate, b \in Indeterminate}
        ELSE {[rc |-> 0, start |-> start, stop |-> stop, step |-> step]}

PyNone_Check(field) == field.none

(***************************************************************************)
(* The ToTensorKey overloads.                                              *)
(***************************************************************************)
\* ToTensorKey(int key): the parameter is a C int, widened again by
\* TensorKey::Index(int64_t).
ToTensorKey_int(key) == {Ret(TensorKey_Index(SignExtend(key)))}

\* Variant: a field counts as defaulted when its value equals the default.
ToTensorKey_slice_byValue(key) ==
    {Ret(TensorKey_Slice(u.start, u.stop, u.step,
                         u.start = I64(0, 0),
                         u.stop = PY_SSIZE_T_MAX,
                         u.step = I64(0, 1))) : u \in PySlice_Unpack(key)}

\* ToTensorKey(const py::slice&): the result of PySlice_Unpack is not
\* looked at; the flags come from the slice object's own fields.
ToTensorKey_slice(key) ==
    {Ret(TensorKey_Slice(u.start, u.stop, u.step,
                         PyNone_Check(key.start),
                         PyNone_Check(key.stop),
                         PyNone_Check(key.step))) : u \in PySlice_Unpack(key)}

\* ToTensorKey(const py::list&)
ToTensorKey_list(key) ==
    LET conv == PyTupleToTensor(key)
        key_tensor == conv.tensor
    IN  IF ~conv.ok THEN {Throw("PyTupleToTensor", key.cls)}
        ELSE IF GetDtype(key_tensor) # "Bool"
        THEN {Ret(TensorKey_IndexTensor(To(key_tensor, "Int64")))}
        ELSE {Ret(TensorKey_IndexTensor(key_tensor))}

\* ToTensorKey(const py::tuple&)
ToTensorKey_tuple(key) ==
    LET conv == PyTupleToTensor(key)
        key_tensor == conv.tensor
    IN  IF ~conv.ok THEN {Throw("PyTupleToTensor", key.cls)}
        ELSE IF GetDtype(key_tensor) # "Bool"
        THEN {Ret(TensorKey_IndexTensor(To(key_tensor, "Int64")))}
        ELSE {Ret(TensorKey_IndexTensor(key_tensor))}

\* Variant: the converted array is wrapped as it is.
ToTensorKey_array_uncast(key) ==
    LET conv == PyArrayToTensor(key)
    IN  IF ~conv.ok THEN {Throw("PyArrayToTensor", key.cls)}
        ELSE {Ret(TensorKey_IndexTensor(conv.tensor))}

\* ToTensorKey(const py::array&)
ToTensorKey_array(key) ==
    LET conv == PyArrayToTensor(key)
        key_tensor == conv.tensor
    IN  IF ~conv.ok THEN {Throw("PyArrayToTensor", key.cls)}
        ELSE IF GetDtype(key_tensor) # "Bool"
        THEN {Ret(TensorKey_IndexTensor(To(key_tensor, "Int64")))}
        ELSE {Ret(TensorKey_IndexTensor(key_tensor))}

\* Variant: a floating-point selector is refused.
ToTensorKey_Tensor_noFloat(key_tensor) ==
    IF GetDtype(key_tensor) = "Float64"
    THEN {Throw("floating-point selector", <<>>)}
    ELSE IF GetDtype(key_tensor) # "Bool"
    THEN {Ret(TensorKey_IndexTensor(To(key_tensor, "Int64")))}
    ELSE {Ret(TensorKey_IndexTensor(key_tensor))}

\* ToTensorKey(const Tensor&)
ToTensorKey_Tensor(key_tensor) ==
    IF GetDtype(key_tensor) # "Bool"
    THEN {Ret(TensorKey_IndexTensor(To(key_tensor, "Int64")))}
    ELSE {Ret(TensorKey_IndexTensor(key_tensor))}

(***************************************************************************)
(* PyHandleToTensorKey: the classification of one element of a tuple, by   *)
(* the name of its class.                                                  *)
(***************************************************************************)
\* Variant: any class whose name contains "Tensor" is taken for the tensor.
IsTensorClassName_anyTensor(class_name) == Find(class_name, "Tensor")

\* class_name.find("open3d") != npos && class_name.find("Tensor") != npos
IsTensorClassName(class_name) ==
    Find(class_name, "open3d") /\ Find(class_name, "Tensor")

\* The try block: item.cast<Tensor*>() throws for an object that is not of
\* the bound Tensor class; catch (...) reports it.
TensorBranch(item) ==
    IF IsObject(item) /\ item.castable
    THEN ToTensorKey_Tensor(item.tensor)
    ELSE {LogError("Cannot cast index to Tensor.", <<>>)}

\* Variant: LogError returns, and control runs off the end of the function:
\* the caller receives whatever TensorKey the return slot holds.
InvalidKeyType_returns(class_name) ==
    {Ret(TensorKey_Index(v)) : v \in Indeterminate}

\* The final else branch.
InvalidKeyType(class_name) ==
    {LogError("PyHandleToTensorKey has invlaid key type {}.", class_name)}

PyHandleToTensorKey(item) ==
    LET class_name == item.cls
    IN  IF class_name = <<"<class '", "int", "'>">>
        THEN ToTensorKey_int(NarrowToInt(item.val))
        ELSE IF class_name = <<"<class '", "slice", "'>">>
        THEN ToTensorKey_slice(item)
        ELSE IF class_name = <<"<class '", "list", "'>">>
        THEN ToTensorKey_list(item)
        ELSE IF class_name = <<"<class '", "tuple", "'>">>
        THEN ToTensorKey_tuple(item)
        ELSE IF class_name = <<"<class '", "numpy.", "ndarray", "'>">>
        THEN ToTensorKey_array(item)
        ELSE IF IsTensorClassName(class_name)
        THEN TensorBranch(item)
        ELSE InvalidKeyType(class_name)

(***************************************************************************)
(* Inputs: the index expressions, keys and values the operations are       *)
(* called with.                                                            *)
(***************************************************************************)
IntInputs ==
    {I64(0, 3), I64(-1, -1), I64(0, -2147483647 - 1), I64(1, 5)}

SliceInputs ==
    {PySlice(a, b, c) :
        a \in {None_, Some(I64(0, 0))},
        b \in {None_, Some(I64(0, 5))},
        c \in {None_, Some(I64(0, 1)), Some(I64(-1, -1)), Some(I64(0, 0))}}

\* Flat sequences of scalars: the contents of lists and of nested tuples.
SequenceInputs ==
    { <<>>,
      <<PyBool(TRUE)>>,
      <<PyBool(TRUE), PyBool(FALSE)>>,
      <<PyInt(I64(0, 3)), PyInt(I64(0, 4)), PyInt(I64(0, 5))>>,
      <<PyInt(I64(0, 3)), PyBool(TRUE)>>,
      <<PyFloat(Num(0, 2, 1))>>,
      <<PyInt(I64(0, 3)), PyFloat(Num(0, 2, 1))>>,
      <<PyStr>> }

ArrayInputs ==
    { NpArray("bool", <<Num(0, 1, 0), Num(0, 0, 0)>>),
      NpArray("int64", <<Num(0, 3, 0)>>),
      NpArray("int32", <<Num(-1, -1, 0)>>),
      NpArray("float64", <<Num(0, 2, 1), Num(-1, -2, 1)>>),
      NpArray("object", <<>>) }

TensorInputs ==
    { Tensor("Bool", <<Num(0, 1, 0), Num(0, 0, 0)>>),
      Tensor("Int64", <<Num(0, 3, 0)>>),
      Tensor("Int32", <<Num(-1, -1, 0)>>),
      Tensor("Float64", <<Num(0, 2, 1), Num(-1, -2, 1)>>) }

\* Objects of the bound Tensor class, under the names of its two bindings.
TensorObjects ==
    {PyObject(<<"open3d", ".pybind.core.", "Tensor">>, TRUE, t) : t \in TensorInputs}
    \cup {PyObject(<<"open3d", ".core.", "Tensor">>, TRUE, Tensor("Int64", <<Num(0, 3, 0)>>))}

\* Objects of other classes.
OtherObjects ==
    { PyObject(<<"open3d", ".pybind.core.", "Tensor", "List">>, FALSE, NoTensor),
      PyObject(<<"open3d", ".pybind.core.Dtype">>, FALSE, NoTensor),
      PyObject(<<"torch.", "Tensor">>, FALSE, NoTensor),
      \* a Python subclass of the bound class, named without "open3d"
      PyObject(<<"__main__.", "Selection">>, TRUE, Tensor("Int64", <<Num(0, 3, 0)>>)) }

Items ==
    {PyInt(v) : v \in IntInputs}
    \cup SliceInputs
    \cup {PyList(es) : es \in SequenceInputs}
    \cup {PyTuple(es) : es \in SequenceInputs}
    \cup ArrayInputs
    \cup TensorObjects
    \cup OtherObjects
    \cup {PyFloat(Num(0, 2, 1)), PyStr, PyNone}

\* Top-level tuples: every tuple of at most MaxTupleLen items.
TupleInputs ==
    {PyTuple(es) : es \in UNION {[1..n -> Items] : n \in 0..MaxTupleLen}}

Exprs == Items \cup TupleInputs

\* Already constructed keys, for the entry points that take a TensorKey.
KeyInputs ==
    { TensorKey_Index(I64(0, 3)),
      TensorKey_Slice(I64(0, 0), I64(0, 5), I64(0, 1), TRUE, FALSE, TRUE),
      TensorKey_IndexTensor(Tensor("Bool", <<Num(0, 1, 0), Num(0, 0, 0)>>)),
      TensorKey_IndexTensor(Tensor("Float64", <<Num(0, 2, 1)>>)) }

KeyVectorInputs == UNION {[1..n -> KeyInputs] : n \in 0..MaxTupleLen}

ValueInputs ==
    {Tensor("Float64", <<Num(0, 7, 0)>>), Tensor("Int64", <<Num(0, 1, 0), Num(0, 2, 0)>>)}

(***************************************************************************)
(* The binding layer (pybind11): which registered overload of __getitem__  *)
(* loads the argument.  The overloads are tried in the order registered.   *)
(***************************************************************************)
\* The methods pybind_core_tensor_accessor defines on the class.
Methods ==
    {"__getitem__", "_getitem", "_getitem_vector", "_setitem", "_setitem_vector"}

\* The caster of a C int loads a Python int that fits, and a bool.
Accepts_int(key) == (IsInt(key) /\ FitsInt(key.val)) \/ ClassIs(key, "bool")

CastToInt(key) == IF IsInt(key) THEN NarrowToInt(key.val)
                  ELSE IF key.val THEN 1 ELSE 0

\* The caster of const Tensor& loads an object of the bound class.
Accepts_Tensor(key) == IsTensor(key)

NoOverload(key) ==
    ~ (Accepts_int(key) \/ IsSlice(key) \/ IsArray(key) \/ Accepts_Tensor(key)
       \/ IsList(key) \/ IsTuple(key))

(***************************************************************************)
(* State.                                                                  *)
(***************************************************************************)
Request(op, key, value) == [op |-> op, key |-> key, value |-> value]

Call(fn, keys, value) == [fn |-> fn, keys |-> keys, value |-> value]

Pending == [status |-> "pending", err |-> "", cls |-> <<>>, at |-> 0]

Ok == [status |-> "ok", err |-> "", cls |-> <<>>, at |-> 0]

Failed(e, c, at) == [status |-> "error", err |-> e, cls |-> c, at |-> at]

Init ==
    /\ pc = "idle"
    /\ req = Request("none", NoItem, NoTensor)
    /\ i = 0
    /\ tks = <<>>
    /\ calls = <<>>
    /\ outcome = Pending

\* The operation ends: it returned after the engine calls cs, or threw.
Finish(r, cs, out) ==
    /\ pc' = "done"
    /\ req' = r
    /\ i' = 0
    /\ tks' = <<>>
    /\ calls' = cs
    /\ outcome' = out

\* tensor.GetItem(ToTensorKey(key)): the conversion result r, then the call.
GetItemWith(key, r) ==
    IF r.ok
    THEN Finish(Request("__getitem__", key, NoTensor),
                <<Call("GetItem", <<r.key>>, NoTensor)>>, Ok)
    ELSE Finish(Request("__getitem__", key, NoTensor), <<>>,
                Failed(r.err, r.cls, 0))

(***************************************************************************)
(* __getitem__, one action per registered overload.                        *)
(***************************************************************************)
GetItem_int ==
    /\ pc = "idle"
    /\ \E key \in Exprs :
          /\ Accepts_int(key)
          /\ \E r \in ToTensorKey_int(CastToInt(key)) : GetItemWith(key, r)

GetItem_slice ==
    /\ pc = "idle"
    /\ \E key \in Exprs :
          /\ IsSlice(key)
          /\ \E r \in ToTensorKey_slice(key) : GetItemWith(key, r)

GetItem_array ==
    /\ pc = "idle"
    /\ \E key \in Exprs :
          /\ IsArray(key)
          /\ \E r \in ToTensorKey_array(key) : GetItemWith(key, r)

GetItem_Tensor ==
    /\ pc = "idle"
    /\ \E key \in Exprs :
          /\ Accepts_Tensor(key)
          /\ \E r \in ToTensorKey_Tensor(key.tensor) : GetItemWith(key, r)

\* Variant: a list of integers is expanded like a tuple, one key per element.
GetItem_list_expanded ==
    /\ pc = "idle"
    /\ \E key \in Exprs :
          /\ IsList(key)
          /\ IF \A k \in 1..Len(key.elems) : IsInt(key.elems[k])
             THEN Finish(Request("__getitem__", key, NoTensor),
                         <<Call("GetItem_vector",
                                [k \in 1..Len(key.elems) |->
                                    TensorKey_Index(key.elems[k].val)],
                                NoTensor)>>, Ok)
             ELSE \E r \in ToTensorKey_list(key) : GetItemWith(key, r)

GetItem_list ==
    /\ pc = "idle"
    /\ \E key \in Exprs :
          /\ IsList(key)
          /\ \E r \in ToTensorKey_list(key) : GetItemWith(key, r)

\* The tuple overload is entered: std::vector<TensorKey> tks.
GetItem_tuple ==
    /\ pc = "idle"
    /\ \E key \in Exprs :
          /\ IsTuple(key)
          /\ pc' = "tuple_loop"
          /\ req' = Request("__getitem__", key, NoTensor)
          /\ i' = 1
          /\ tks' = <<>>
          /\ calls' = <<>>
          /\ outcome' = Pending

\* Variant: every element is applied to the tensor as soon as it is resolved.
GetItem_tuple_step_eager ==
    /\ pc = "tuple_loop"
    /\ i <= Len(req.key.elems)
    /\ \E r \in PyHandleToTensorKey(req.key.elems[i]) :
          IF r.ok
          THEN /\ tks' = Append(tks, r.key)
               /\ calls' = Append(calls, Call("GetItem", <<r.key>>, NoTensor))
               /\ i' = i + 1
               /\ UNCHANGED <<pc, req, outcome>>
          ELSE Finish(req, calls, Failed(r.err, r.cls, i))

\* Variant: a nested tuple contributes one key per element of its own.
GetItem_tuple_step_nested ==
    /\ pc = "tuple_loop"
    /\ i <= Len(req.key.elems)
    /\ LET item == req.key.elems[i]
       IN  IF IsTuple(item) /\ \A k \in 1..Len(item.elems) : IsInt(item.elems[k])
           THEN /\ tks' = tks \o [k \in 1..Len(item.elems) |->
                                     TensorKey_Index(item.elems[k].val)]
                /\ i' = i + 1
                /\ UNCHANGED <<pc, req, calls, outcome>>
           ELSE \E r \in PyHandleToTensorKey(item) :
                   IF r.ok
                   THEN /\ tks' = Append(tks, r.key)
                        /\ i' = i + 1
                        /\ UNCHANGED <<pc, req, calls, outcome>>
                   ELSE Finish(req, <<>>, Failed(r.err, r.cls, i))

\* One iteration: tks.push_back(PyHandleToTensorKey(item)); an exception
\* leaves the overload.
GetItem_tuple_step ==
    /\ pc = "tuple_loop"
    /\ i <= Len(req.key.elems)
    /\ \E r \in PyHandleToTensorKey(req.key.elems[i]) :
          IF r.ok
          THEN /\ tks' = Append(tks, r.key)
               /\ i' = i + 1
               /\ UNCHANGED <<pc, req, calls, outcome>>
          ELSE Finish(req, <<>>, Failed(r.err, r.cls, i))

\* After the loop: return tensor.GetItem(tks).
GetItem_tuple_call ==
    /\ pc = "tuple_loop"
    /\ i > Len(req.key.elems)
    /\ Finish(req, Append(calls, Call("GetItem_vector", tks, NoTensor)), Ok)

\* No overload loads the argument: the binding layer raises TypeError.
GetItem_noOverload ==
    /\ pc = "idle"
    /\ \E key \in Exprs :
          /\ NoOverload(key)
          /\ Finish(Request("__getitem__", key, NoTensor), <<>>,
                    Failed("TypeError: incompatible function arguments", <<>>, 0))

(***************************************************************************)
(* t[key] = value.  The class has no __setitem__.                          *)
(***************************************************************************)
SetItem_subscript ==
    /\ pc = "idle"
    /\ "__setitem__" \notin Methods
    /\ \E key \in Exprs, value \in ValueInputs :
          Finish(Request("__setitem__", key, value), <<>>,
                 Failed("TypeError: object does not support item assignment",
                        <<>>, 0))

(***************************************************************************)
(* The entry points that take keys already constructed.                    *)
(***************************************************************************)
TensorKeyArg(tk) == [cls |-> <<"TensorKey">>, tk |-> tk]

TensorKeyVectorArg(v) == [cls |-> <<"std::vector<TensorKey>">>, tks |-> v]

GetItemKey ==
    /\ pc = "idle"
    /\ \E tk \in KeyInputs :
          Finish(Request("_getitem", TensorKeyArg(tk), NoTensor),
                 <<Call("GetItem", <<tk>>, NoTensor)>>, Ok)

GetItemVector ==
    /\ pc = "idle"
    /\ \E v \in KeyVectorInputs :
          Finish(Request("_getitem_vector", TensorKeyVectorArg(v), NoTensor),
                 <<Call("GetItem_vector", v, NoTensor)>>, Ok)

SetItemKey ==
    /\ pc = "idle"
    /\ \E tk \in KeyInputs, value \in ValueInputs :
          Finish(Request("_setitem", TensorKeyArg(tk), value),
                 <<Call("SetItem", <<tk>>, value)>>, Ok)

SetItemVector ==
    /\ pc = "idle"
    /\ \E v \in KeyVectorInputs, value \in ValueInputs :
          Finish(Request("_setitem_vector", TensorKeyVectorArg(v), value),
                 <<Call("SetItem_vector", v, value)>>, Ok)

\* The caller takes the result or the exception; nothing is kept: the keys
\* and the vector are destroyed with the call.
Return ==
    /\ pc = "done"
    /\ pc' = "idle"
    /\ req' = Request("none", NoItem, NoTensor)
    /\ i' = 0
    /\ tks' = <<>>
    /\ calls' = <<>>
    /\ outcome' = Pending

Next ==
    \/ GetItem_int
    \/ GetItem_slice
    \/ GetItem_array
    \/ GetItem_Tensor
    \/ GetItem_list
    \/ GetItem_tuple
    \/ GetItem_tuple_step
    \/ GetItem_tuple_call
    \/ GetItem_noOverload
    \/ SetItem_subscript
    \/ GetItemKey
    \/ GetItemVector
    \/ SetItemKey
    \/ SetItemVector
    \/ Return

Spec == Init /\ [][Next]_vars

(***************************************************************************)
(* Vocabulary of the properties.                                           *)
(***************************************************************************)
Reading == req.op = "__getitem__"

ReadDone == pc = "done" /\ Reading

Elems == req.key.elems

\* The elements of the tuple already resolved by the loop.
Resolved == 1..Len(tks)

\* Dtype normalization as specified: Boolean kept, anything else cast to
\* 64-bit integer, element by element.
Normalized(t) ==
    IF t.dtype = "Bool" THEN t
    ELSE Tensor("Int64", [k \in 1..Len(t.vals) |-> Trunc(t.vals[k])])

\* The selector tensor an item stands for, before normalization.
IsSelector(item) ==
    \/ (IsList(item) \/ IsTuple(item)) /\ PyTupleToTensor(item).ok
    \/ IsArray(item) /\ PyArrayToTensor(item).ok
    \/ IsTensor(item)

SelectorOf(item) ==
    IF IsList(item) \/ IsTuple(item) THEN PyTupleToTensor(item).tensor
    ELSE IF IsArray(item) THEN PyArrayToTensor(item).tensor
    ELSE item.tensor

IsFloatSelector(item) ==
    (IsList(item) \/ IsArray(item) \/ IsTensor(item))
    /\ IsSelector(item) /\ SelectorOf(item).dtype = "Float64"

MatchesTensorName(item) == Find(item.cls, "open3d") /\ Find(item.cls, "Tensor")

\* An item of none of the recognized shapes.
Unrecognized(item) ==
    ~ (IsInt(item) \/ IsSlice(item) \/ IsList(item) \/ IsTuple(item)
       \/ IsArray(item) \/ IsTensor(item) \/ MatchesTensorName(item))

UnsupportedIndexType(out, item) ==
    /\ out.status = "error"
    /\ out.err = "PyHandleToTensorKey has invlaid key type {}."
    /\ out.cls = item.cls

KeyConversionError(out) ==
    out.status = "error" /\ out.err = "Cannot cast index to Tensor."

\* The keys the single-key overloads of the read build for a top-level key.
TopLevelToTensorKey(key) ==
    IF Accepts_int(key) THEN ToTensorKey_int(CastToInt(key))
    ELSE IF IsSlice(key) THEN ToTensorKey_slice(key)
    ELSE IF IsArray(key) THEN ToTensorKey_array(key)
    ELSE IF Accepts_Tensor(key) THEN ToTensorKey_Tensor(key.tensor)
    ELSE IF IsList(key) THEN ToTensorKey_list(key)
    ELSE {}

\* keys is what the read of key submits to the engine.
SubmittedByRead(keys, key) ==
    IF IsTuple(key)
    THEN /\ Len(keys) = Len(key.elems)
         /\ \A k \in 1..Len(keys) : Ret(keys[k]) \in PyHandleToTensorKey(key.elems[k])
    ELSE Len(keys) = 1 /\ Ret(keys[1]) \in TopLevelToTensorKey(key)

(***************************************************************************)
(* C1.  List versus tuple.  A top-level list that converts is read by      *)
(* exactly one call of the single-key GetItem, with one Gather key whose   *)
(* selector holds every element of the list in order.  A top-level tuple   *)
(* whose elements all classify is read by exactly one call of the          *)
(* multi-key GetItem, with as many keys as the tuple has elements, the     *)
(* k-th key being the classification of the k-th element.                  *)
(***************************************************************************)
C1_ListTupleAsymmetry ==
    ReadDone =>
      /\ (IsList(req.key) /\ PyTupleToTensor(req.key).ok) =>
            /\ outcome = Ok
            /\ Len(calls) = 1
            /\ calls[1].fn = "GetItem"
            /\ Len(calls[1].keys) = 1
            /\ calls[1].keys[1].mode = "IndexTensor"
            /\ Len(calls[1].keys[1].index_tensor.vals) = Len(Elems)
            /\ calls[1].keys[1].index_tensor = Normalized(SelectorOf(req.key))
            /\ \A k \in 1..Len(Elems) :
                  calls[1].keys[1].index_tensor.vals[k] = Trunc(ElementOf(Elems[k]))
      /\ (IsTuple(req.key) /\ outcome = Ok) =>
            /\ Len(calls) = 1
            /\ calls[1].fn = "GetItem_vector"
            /\ Len(calls[1].keys) = Len(Elems)
            /\ \A k \in 1..Len(Elems) :
                  Ret(calls[1].keys[k]) \in PyHandleToTensorKey(Elems[k])
      /\ (IsTuple(req.key)
          /\ \A k \in 1..Len(Elems) : \E r \in PyHandleToTensorKey(Elems[k]) : r.ok)
            => outcome = Ok

\* The tuple (3, 4, 5) has been read: three scalar keys in one multi-key call.
C1_Witness ==
    /\ ReadDone
    /\ req.key = PyTuple(<<PyInt(I64(0, 3)), PyInt(I64(0, 4)), PyInt(I64(0, 5))>>)
    /\ calls = <<Call("GetItem_vector",
                      <<TensorKey_Index(I64(0, 3)), TensorKey_Index(I64(0, 4)),
                        TensorKey_Index(I64(0, 5))>>, NoTensor)>>

(***************************************************************************)
(* C2, as claimed.  A tuple that is an element of the top-level tuple is   *)
(* expanded into one key per element of its own and never becomes a single *)
(* Gather key.                                                             *)
(***************************************************************************)
C2_NestedTupleExpands ==
    (pc = "tuple_loop" /\ Reading) =>
        \A j \in Resolved : IsTuple(Elems[j]) => tks[j].mode # "IndexTensor"

(***************************************************************************)
(* C2, amended.  The top-level tuple contributes one key per element, and  *)
(* an element that is itself a tuple is classified as a whole: it becomes  *)
(* the one Gather key over the dtype-normalized tensor of the nested       *)
(* tuple.                                                                  *)
(***************************************************************************)
C2_NestedTupleIsOneGather ==
    (pc = "tuple_loop" /\ Reading) =>
        /\ Len(tks) = i - 1
        /\ \A j \in Resolved :
              IsTuple(Elems[j]) =>
                 /\ PyTupleToTensor(Elems[j]).ok
                 /\ tks[j] = TensorKey_IndexTensor(Normalized(SelectorOf(Elems[j])))
                 /\ Len(tks[j].index_tensor.vals) = Len(Elems[j].elems)

\* The loop has resolved a nested (3, 4, 5) into a single Gather key.
C2_Witness ==
    /\ pc = "tuple_loop"
    /\ i = 2
    /\ Elems[1] = PyTuple(<<PyInt(I64(0, 3)), PyInt(I64(0, 4)), PyInt(I64(0, 5))>>)
    /\ tks[1].mode = "IndexTensor"
    /\ Len(tks[1].index_tensor.vals) = 3

(***************************************************************************)
(* C3.  Every Gather key the read operator builds, at top level or for an  *)
(* element of a tuple, wraps a selector of dtype Bool or Int64: Bool when  *)
(* the selector it was built from is Bool, Int64 otherwise.                *)
(***************************************************************************)
C3_GatherDtype ==
    Reading =>
      /\ \A j \in Resolved :
            tks[j].mode = "IndexTensor" =>
               /\ tks[j].index_tensor.dtype \in {"Bool", "Int64"}
               /\ IsSelector(Elems[j])
               /\ (tks[j].index_tensor.dtype = "Bool")
                     = (SelectorOf(Elems[j]).dtype = "Bool")
      /\ \A c \in 1..Len(calls) : \A k \in 1..Len(calls[c].keys) :
            calls[c].keys[k].mode = "IndexTensor" =>
               calls[c].keys[k].index_tensor.dtype \in {"Bool", "Int64"}
      /\ (pc = "done" /\ ~IsTuple(req.key) /\ IsSelector(req.key)) =>
            /\ outcome = Ok
            /\ calls[1].keys[1].mode = "IndexTensor"
            /\ calls[1].keys[1].index_tensor.dtype =
                  (IF SelectorOf(req.key).dtype = "Bool" THEN "Bool" ELSE "Int64")

\* A 32-bit integer numpy array has been read through an Int64 selector.
C3_Witness ==
    /\ ReadDone
    /\ IsArray(req.key)
    /\ req.key.dtype = "int32"
    /\ outcome = Ok
    /\ calls[1].keys[1].index_tensor.dtype = "Int64"

(***************************************************************************)
(* C4, as claimed.  A floating-point selector (list, numpy array or native *)
(* tensor) is rejected: the read ends in an error, no Gather key is built  *)
(* from it and the engine is not called.                                   *)
(***************************************************************************)
C4_FloatSelectorRejected ==
    /\ (ReadDone /\ IsFloatSelector(req.key)) =>
          outcome.status = "error" /\ calls = <<>>
    /\ (pc = "tuple_loop" /\ Reading) =>
          \A j \in Resolved : ~IsFloatSelector(Elems[j])

(***************************************************************************)
(* C4, amended.  A floating-point selector is accepted: it is cast to      *)
(* Int64, every element truncated toward zero, and wrapped in a Gather key *)
(* like any other non-Boolean selector; at top level the engine is called  *)
(* with that key.                                                          *)
(***************************************************************************)
C4_FloatSelectorCast ==
    /\ (ReadDone /\ IsFloatSelector(req.key)) =>
          /\ outcome = Ok
          /\ calls = <<Call("GetItem",
                            <<TensorKey_IndexTensor(
                                 Tensor("Int64",
                                        [k \in 1..Len(SelectorOf(req.key).vals) |->
                                            Trunc(SelectorOf(req.key).vals[k])]))>>,
                            NoTensor)>>
    /\ (ReadDone /\ IsTuple(req.key) /\ outcome.status = "error") =>
          ~IsFloatSelector(Elems[outcome.at])
    /\ (pc = "tuple_loop" /\ Reading) =>
          \A j \in Resolved :
             IsFloatSelector(Elems[j]) =>
                /\ tks[j].mode = "IndexTensor"
                /\ tks[j].index_tensor.dtype = "Int64"

\* A Float64 tensor [2.5, -1.5] has been read as the Int64 selector [2, -1].
C4_Witness ==
    /\ ReadDone
    /\ IsTensor(req.key)
    /\ req.key.tensor = Tensor("Float64", <<Num(0, 2, 1), Num(-1, -2, 1)>>)
    /\ outcome = Ok
    /\ calls[1].keys[1].index_tensor = Tensor("Int64", <<Num(0, 2, 0), Num(-1, -1, 0)>>)

(***************************************************************************)
(* C5.  Default flags of a Range key.  For every slice, at top level or as *)
(* an element of a tuple, start_is_none, stop_is_none and step_is_none are *)
(* true exactly when the slice's start, stop and step are None, whatever   *)
(* values the key carries.                                                 *)
(***************************************************************************)
FlagsFaithful(tk, slice) ==
    /\ tk.mode = "Slice"
    /\ tk.start_is_none = slice.start.none
    /\ tk.stop_is_none = slice.stop.none
    /\ tk.step_is_none = slice.step.none

C5_DefaultFlags ==
    /\ (ReadDone /\ IsSlice(req.key)) =>
          /\ outcome = Ok
          /\ Len(calls) = 1
          /\ FlagsFaithful(calls[1].keys[1], req.key)
    /\ (pc = "tuple_loop" /\ Reading) =>
          \A j \in Resolved : IsSlice(Elems[j]) => FlagsFaithful(tks[j], Elems[j])
    /\ (ReadDone /\ IsTuple(req.key) /\ outcome = Ok) =>
          \A j \in 1..Len(Elems) :
             IsSlice(Elems[j]) => FlagsFaithful(calls[1].keys[j], Elems[j])

\* slice(None, 5, None) has been read: flags true, false, true, the start
\* carrying the substituted 0 and the step the substituted 1.
C5_Witness ==
    /\ ReadDone
    /\ req.key = PySlice(None_, Some(I64(0, 5)), None_)
    /\ calls[1].keys[1] =
          TensorKey_Slice(I64(0, 0), I64(0, 5), I64(0, 1), TRUE, FALSE, TRUE)

(***************************************************************************)
(* C6.  Scalar pass-through.  Every Python int i, at top level or as an    *)
(* element of a tuple, becomes the key Index(i) with the same 64-bit       *)
(* value.                                                                  *)
(***************************************************************************)
C6_ScalarPassThrough ==
    /\ (ReadDone /\ IsInt(req.key)) =>
          /\ outcome = Ok
          /\ calls = <<Call("GetItem", <<TensorKey_Index(req.key.val)>>, NoTensor)>>
    /\ (pc = "tuple_loop" /\ Reading) =>
          \A j \in Resolved :
             IsInt(Elems[j]) => tks[j] = TensorKey_Index(Elems[j].val)

(***************************************************************************)
(* C7.  Write path equals read path.  An assignment t[k] = v with a        *)
(* supported k is accepted and makes one SetItem call with the value v and *)
(* the key, or key sequence, that the read t[k] submits to GetItem.        *)
(***************************************************************************)
C7_WriteEqualsRead ==
    (pc = "done" /\ req.op = "__setitem__" /\ ~NoOverload(req.key)) =>
        /\ outcome = Ok
        /\ Len(calls) = 1
        /\ calls[1].fn = (IF IsTuple(req.key) THEN "SetItem_vector" ELSE "SetItem")
        /\ calls[1].value = req.value
        /\ SubmittedByRead(calls[1].keys, req.key)

(***************************************************************************)
(* C8, as claimed.  An item of none of the recognized shapes, at top level *)
(* or as an element of a tuple, makes the read fail with the               *)
(* UnsupportedIndexType error naming the item's class, and never yields a  *)
(* key.                                                                    *)
(***************************************************************************)
C8_UnsupportedEverywhere ==
    /\ (ReadDone /\ ~IsTuple(req.key) /\ Unrecognized(req.key)) =>
          UnsupportedIndexType(outcome, req.key) /\ calls = <<>>
    /\ (pc = "tuple_loop" /\ Reading) =>
          \A j \in Resolved : ~Unrecognized(Elems[j])
    /\ (ReadDone /\ IsTuple(req.key) /\ outcome.status = "error"
        /\ Unrecognized(Elems[outcome.at])) =>
          UnsupportedIndexType(outcome, Elems[outcome.at]) /\ calls = <<>>

(***************************************************************************)
(* C8, amended.  As an element of the top-level tuple, an item of none of  *)
(* the recognized shapes makes the read fail with the UnsupportedIndexType *)
(* error naming the item's class, and the classifier never yields a key    *)
(* for it.  At top level the classifier is not run: an expression that no  *)
(* registered overload accepts is rejected by the binding layer with a     *)
(* TypeError.  In both cases the engine is not called.                     *)
(***************************************************************************)
C8_UnsupportedInTuple ==
    /\ (pc = "tuple_loop" /\ Reading) =>
          \A j \in Resolved : ~Unrecognized(Elems[j])
    /\ (ReadDone /\ IsTuple(req.key) /\ outcome.status = "error"
        /\ Unrecognized(Elems[outcome.at])) =>
          UnsupportedIndexType(outcome, Elems[outcome.at]) /\ calls = <<>>
    /\ (ReadDone /\ IsTuple(req.key)
        /\ \E j \in 1..Len(Elems) : Unrecognized(Elems[j])) =>
          outcome.status = "error" /\ calls = <<>>
    /\ (ReadDone /\ ~IsTuple(req.key) /\ Unrecognized(req.key)) =>
          /\ outcome = Failed("TypeError: incompatible function arguments", <<>>, 0)
          /\ calls = <<>>

\* A tuple whose second element is a str has failed, naming the class str.
C8_Witness ==
    /\ ReadDone
    /\ IsTuple(req.key)
    /\ outcome.at = 2
    /\ Elems[2] = PyStr
    /\ UnsupportedIndexType(outcome, PyStr)

(***************************************************************************)
(* C9.  No partial application.  The engine is not called while the tuple  *)
(* is being resolved; an operation that ends in an error has made no       *)
(* engine call; and when the tuple overload does call the engine, it is    *)
(* one call with a key for every element of the tuple.                     *)
(***************************************************************************)
C9_NoPartialApplication ==
    /\ pc = "tuple_loop" => calls = <<>>
    /\ (pc = "done" /\ outcome.status = "error") => calls = <<>>
    /\ (ReadDone /\ IsTuple(req.key) /\ calls # <<>>) =>
          /\ Len(calls) = 1
          /\ calls[1].fn = "GetItem_vector"
          /\ Len(calls[1].keys) = Len(Elems)

\* A tuple has failed at its second element, after the first was resolved.
C9_Witness ==
    /\ ReadDone
    /\ IsTuple(req.key)
    /\ outcome.status = "error"
    /\ outcome.at = 2
    /\ \E r \in PyHandleToTensorKey(Elems[1]) : r.ok
    /\ calls = <<>>

(***************************************************************************)
(* C10.  Inside a tuple the native tensor is recognized by the name of its *)
(* class.  An element whose class name contains "open3d" and "Tensor" but  *)
(* which is not a Tensor fails with "Cannot cast index to Tensor.", and    *)
(* only such an element does; it never yields a key.  An element of a      *)
(* matching name that is a Tensor yields the Gather key over its           *)
(* dtype-normalized value.  An object whose class name does not match is   *)
(* an unsupported index type even when it is a Tensor.                     *)
(***************************************************************************)
C10_TensorByName ==
    /\ (pc = "tuple_loop" /\ Reading) =>
          \A j \in Resolved :
             IsObject(Elems[j]) =>
                /\ MatchesTensorName(Elems[j])
                /\ Elems[j].castable
                /\ tks[j] = TensorKey_IndexTensor(Normalized(Elems[j].tensor))
    /\ (ReadDone /\ IsTuple(req.key) /\ outcome.status = "error") =>
          /\ KeyConversionError(outcome) =
                (IsObject(Elems[outcome.at]) /\ MatchesTensorName(Elems[outcome.at])
                 /\ ~Elems[outcome.at].castable)
          /\ KeyConversionError(outcome) =>
                ~UnsupportedIndexType(outcome, Elems[outcome.at])
          /\ (IsObject(Elems[outcome.at]) /\ ~MatchesTensorName(Elems[outcome.at])) =>
                UnsupportedIndexType(outcome, Elems[outcome.at])
    /\ (ReadDone /\ IsTuple(req.key) /\ outcome = Ok) =>
          \A j \in 1..Len(Elems) :
             IsObject(Elems[j]) => MatchesTensorName(Elems[j]) /\ Elems[j].castable

\* A tuple holding an open3d TensorList has failed with the cast error.
C10_Witness ==
    /\ ReadDone
    /\ IsTuple(req.key)
    /\ outcome.at \in 1..Len(Elems)
    /\ Elems[outcome.at].cls = <<"<class '", "open3d", ".pybind.core.", "Tensor", "List", "'>">>
    /\ KeyConversionError(outcome)

=============================================================================
